---------------------------- MODULE Spec2Model ----------------------------
(***************************************************************************)
(* Binary distillation column simulator (McCabe-Thiele).                   *)
(*                                                                         *)
(* The numerical core (src/unnamed/part_000) is modelled over a software   *)
(* binary floating-point type: a finite number is  m * 2^e  with a signed  *)
(* 24-bit significand, and the three IEEE-754 special values NaN, +Inf and *)
(* -Inf behave as JavaScript's Number does (x/0, Inf-Inf, comparisons with *)
(* NaN, Math.max with NaN, Math.sign, Number.isFinite).  The only          *)
(* departure from the JavaScript double is the width of the significand    *)
(* (24 bits instead of 53) and the absence of a negative zero.             *)
(***************************************************************************)
EXTENDS Integers, Sequences, FiniteSets, TLC

(***************************************************************************)
(* Number : the JavaScript Number type                                     *)
(***************************************************************************)
Two23 == 2^23
Two24 == 2^24
Two12 == 2^12
ExpMax == 2^10
ExpMin == -(2^10)

Fin(m, e) == [c |-> "fin", m |-> m, e |-> e]
NaN  == [c |-> "nan",  m |-> 0, e |-> 0]
PInf == [c |-> "pinf", m |-> 0, e |-> 0]
NInf == [c |-> "ninf", m |-> 0, e |-> 0]
Zero == Fin(0, 0)
\* the value of a call that never returns; every operation is strict in it
Bottom == [c |-> "bot", m |-> 0, e |-> 0]

Abs(n) == IF n < 0 THEN -n ELSE n
Sgn(n) == IF n < 0 THEN -1 ELSE IF n > 0 THEN 1 ELSE 0

\* number of binary digits of n, 0 <= n < 2^31
BitLen(n) ==
  IF n < 2^16
  THEN IF n < 2^8
       THEN IF n < 2^4
            THEN IF n < 2^2 THEN (IF n < 1 THEN 0 ELSE IF n < 2 THEN 1 ELSE 2)
                            ELSE (IF n < 2^3 THEN 3 ELSE 4)
            ELSE IF n < 2^6 THEN (IF n < 2^5 THEN 5 ELSE 6)
                            ELSE (IF n < 2^7 THEN 7 ELSE 8)
       ELSE IF n < 2^12
            THEN IF n < 2^10 THEN (IF n < 2^9 THEN 9 ELSE 10)
                             ELSE (IF n < 2^11 THEN 11 ELSE 12)
            ELSE IF n < 2^14 THEN (IF n < 2^13 THEN 13 ELSE 14)
                             ELSE (IF n < 2^15 THEN 15 ELSE 16)
  ELSE IF n < 2^24
       THEN IF n < 2^20
            THEN IF n < 2^18 THEN (IF n < 2^17 THEN 17 ELSE 18)
                             ELSE (IF n < 2^19 THEN 19 ELSE 20)
            ELSE IF n < 2^22 THEN (IF n < 2^21 THEN 21 ELSE 22)
                             ELSE (IF n < 2^23 THEN 23 ELSE 24)
       ELSE IF n < 2^28
            THEN IF n < 2^26 THEN (IF n < 2^25 THEN 25 ELSE 26)
                             ELSE (IF n < 2^27 THEN 27 ELSE 28)
            ELSE IF n < 2^30 THEN (IF n < 2^29 THEN 29 ELSE 30)
                             ELSE 31


\* the Number with sign s, significand m and exponent ee (overflow gives an
\* infinity, underflow gives zero)
Finish(s, m, ee) ==
  IF ee > ExpMax THEN (IF s > 0 THEN PInf ELSE NInf)
  ELSE IF ee < ExpMin THEN Zero
  ELSE Fin(s * m, ee)

\* a significand that was rounded up to 2^24 is renormalised
Pack(s, r, ee) == IF r = Two24 THEN Finish(s, Two23, ee + 1) ELSE Finish(s, r, ee)

\* s * a * 2^e for a of L binary digits, rounded to 24 digits (half away from zero)
Round(s, a, L, e) ==
  Pack(s, IF L <= 24 THEN a * 2^(24 - L) ELSE (a + 2^(L - 25)) \div 2^(L - 24), e + L - 24)

\* the Number nearest to v * 2^e
Normalize(v, e) ==
  IF v = 0 THEN Zero ELSE Round(Sgn(v), Abs(v), BitLen(Abs(v)), e)

FromInt(n) == Normalize(n, 0)
IsNaN(a) == a.c = "nan"
IsFinite(a) == a.c = "fin"
IsNeg(a) == a.c = "ninf" \/ (a.c = "fin" /\ a.m < 0)
IsPos(a) == a.c = "pinf" \/ (a.c = "fin" /\ a.m > 0)
IsZero(a) == a.c = "fin" /\ a.m = 0

FNeg(a) == CASE a.c = "fin"  -> Fin(-a.m, a.e)
             [] a.c = "pinf" -> NInf
             [] a.c = "ninf" -> PInf
             [] OTHER        -> a

\* Math.abs
FAbs(a) == IF IsNeg(a) THEN FNeg(a) ELSE a

\* a + b
FAdd(a, b) ==
  IF a = Bottom \/ b = Bottom THEN Bottom
  ELSE IF IsNaN(a) \/ IsNaN(b) THEN NaN
  ELSE IF ~IsFinite(a) THEN (IF ~IsFinite(b) /\ a.c # b.c THEN NaN ELSE a)
  ELSE IF ~IsFinite(b) THEN b
  ELSE IF a.m = 0 THEN b
  ELSE IF b.m = 0 THEN a
  ELSE LET hi == IF a.e >= b.e THEN a ELSE b
           lo == IF a.e >= b.e THEN b ELSE a
           d  == hi.e - lo.e
       IN  IF d > 29 THEN hi
           ELSE Normalize(hi.m * 32 + Sgn(lo.m) * ((Abs(lo.m) * 32) \div 2^d), hi.e - 5)

\* a - b
FSub(a, b) == FAdd(a, FNeg(b))

\* floor(x * y / 2^23) for 0 <= x, y < 2^24
MulShift(x, y) ==
  LET xh == x \div Two12
      xl == x % Two12
      yh == y \div Two12
      yl == y % Two12
  IN  2 * xh * yh + (2 * (xh * yl + xl * yh) + (xl * yl) \div 2^11) \div Two12

\* a * b
FMul(a, b) ==
  IF a = Bottom \/ b = Bottom THEN Bottom
  ELSE IF IsNaN(a) \/ IsNaN(b) THEN NaN
  ELSE IF ~IsFinite(a) \/ ~IsFinite(b)
       THEN (IF IsZero(a) \/ IsZero(b) THEN NaN
             ELSE IF IsNeg(a) = IsNeg(b) THEN PInf ELSE NInf)
  ELSE IF a.m = 0 \/ b.m = 0 THEN Zero
  ELSE Normalize(Sgn(a.m) * Sgn(b.m) * MulShift(Abs(a.m), Abs(b.m)), a.e + b.e + 23)

\* floor(x * 2^25 / y) for 2^23 <= x, y < 2^24
DivShift(x, y) ==
  LET q0 == x \div y
      r0 == x % y
      q1 == (r0 * 32) \div y
      r1 == (r0 * 32) % y
      q2 == (r1 * 32) \div y
      r2 == (r1 * 32) % y
      q3 == (r2 * 32) \div y
      r3 == (r2 * 32) % y
      q4 == (r3 * 32) \div y
      r4 == (r3 * 32) % y
      q5 == (r4 * 32) \div y
  IN  q0 * 2^25 + q1 * 2^20 + q2 * 2^15 + q3 * 2^10 + q4 * 32 + q5

\* a / b   (x/0 is an infinity, 0/0 and Inf/Inf are NaN)
FDiv(a, b) ==
  IF a = Bottom \/ b = Bottom THEN Bottom
  ELSE IF IsNaN(a) \/ IsNaN(b) THEN NaN
  ELSE IF ~IsFinite(a)
       THEN (IF ~IsFinite(b) THEN NaN
             ELSE IF IsNeg(a) = IsNeg(b) THEN PInf ELSE NInf)
  ELSE IF ~IsFinite(b) THEN Zero
  ELSE IF b.m = 0
       THEN (IF a.m = 0 THEN NaN ELSE IF a.m > 0 THEN PInf ELSE NInf)
  ELSE IF a.m = 0 THEN Zero
  ELSE Normalize(Sgn(a.m) * Sgn(b.m) * DivShift(Abs(a.m), Abs(b.m)), a.e - b.e - 25)

\* a < b   (false when either is NaN)
FLt(a, b) ==
  IF IsNaN(a) \/ IsNaN(b) THEN FALSE
  ELSE IF a.c = "pinf" \/ b.c = "ninf" THEN FALSE
  ELSE IF a.c = "ninf" \/ b.c = "pinf" THEN TRUE
  ELSE IF a.m = 0 THEN b.m > 0
  ELSE IF b.m = 0 THEN a.m < 0
  ELSE IF (a.m > 0) # (b.m > 0) THEN a.m < 0
  ELSE IF a.m > 0 THEN a.e < b.e \/ (a.e = b.e /\ a.m < b.m)
  ELSE a.e > b.e \/ (a.e = b.e /\ a.m < b.m)

\* a > b, a <= b, a >= b   (all false when either is NaN)
FGt(a, b) == FLt(b, a)
FLe(a, b) == ~IsNaN(a) /\ ~IsNaN(b) /\ ~FLt(b, a)
FGe(a, b) == FLe(b, a)

\* Math.max(a, b): NaN when either argument is NaN
FMax(a, b) == IF IsNaN(a) \/ IsNaN(b) THEN NaN ELSE IF FLt(a, b) THEN b ELSE a

\* Math.sign: -1, 0, 1, or NaN (here 2) for NaN
FSign(a) == IF IsNaN(a) THEN 2 ELSE IF IsNeg(a) THEN -1 ELSE IF IsPos(a) THEN 1 ELSE 0
\* Math.sign(a) !== Math.sign(b): NaN differs from everything, itself included
SignDiffers(a, b) == IsNaN(a) \/ IsNaN(b) \/ FSign(a) # FSign(b)

\* a decimal literal n/d of the source text (n, d < 2^31)
Dec(n, d) == FDiv(FromInt(n), FromInt(d))

One == FromInt(1)
Two == FromInt(2)

(***************************************************************************)
(* Statements                                                              *)
(***************************************************************************)
\* const v = ...; followed by the statements F(v).  The initialiser is
\* evaluated first, and nothing follows it when its evaluation never returns.
Bind(v, F(_)) == IF v = Bottom THEN Bottom ELSE F(v)

(***************************************************************************)
(* Math.log10, Math.log, 10 ** x, Math.sqrt                                *)
(* The series are evaluated in 28-bit fixed point and rounded to a Number. *)
(***************************************************************************)
\* floor(x * y / 2^28) for 0 <= x, y < 2^29
QMul(x, y) ==
  LET xh == x \div 2^14
      xl == x % 2^14
      yh == y \div 2^14
      yl == y % 2^14
  IN  xh * yh + (xh * yl + xl * yh + (xl * yl) \div 2^14) \div 2^14

\* floor(n * 2^28 / d) for 0 <= n < d < 2^27, by long division in base 16
QDiv(n, d) ==
  LET q1 == (n * 16) \div d
      r1 == (n * 16) % d
      q2 == (r1 * 16) \div d
      r2 == (r1 * 16) % d
      q3 == (r2 * 16) \div d
      r3 == (r2 * 16) % d
      q4 == (r3 * 16) \div d
      r4 == (r3 * 16) % d
      q5 == (r4 * 16) \div d
      r5 == (r4 * 16) % d
      q6 == (r5 * 16) \div d
      r6 == (r5 * 16) % d
      q7 == (r6 * 16) \div d
  IN  q1 * 2^24 + q2 * 2^20 + q3 * 2^16 + q4 * 2^12 + q5 * 2^8 + q6 * 16 + q7

\* c + w2 * p, one step of Horner's rule in 28-bit fixed point
Horner(c, w2, p) == c + QMul(w2, p)

\* atanh(w) / w = 1 + w2/3 + w2^2/5 + ... + w2^8/17 for w2 = w^2, 0 <= w <= 1/3
AtanhPoly(w2) ==
  Horner(2^28, w2, Horner(89478485, w2, Horner(53687091, w2, Horner(38347922, w2,
    Horner(29826161, w2, Horner(24403223, w2, Horner(20648881, w2,
      Horner(17895697, w2, 15790320))))))))

\* atanh(w), 28-bit fixed point, 0 <= w <= 1/3
AtanhSeries(w) == QMul(w, AtanhPoly(QMul(w, w)))

\* Math.log(a), the natural logarithm
FLn(a) ==
  IF a = Bottom THEN Bottom
  ELSE IF IsNaN(a) \/ IsNeg(a) THEN NaN
  ELSE IF a.c = "pinf" THEN PInf
  ELSE IF a.m = 0 THEN NInf
  ELSE \* ln(m * 2^e) = (e + 23) ln 2 + 2 atanh((u - 1)/(u + 1)), u = m/2^23
       FAdd(FMul(FromInt(a.e + 23), Fin(11629080, -24)),
            Normalize(2 * AtanhSeries(QDiv(a.m - Two23, a.m + Two23)), -28))

\* Math.log10(a)
FLog10(a) == FDiv(FLn(a), Fin(9657742, -22))

\* 2^(j/16) for j = 0 .. 15, 28-bit fixed point
Pow2Table ==
  <<268435456, 280320108, 292730940, 305691246, 319225354, 333358668, 348117717,
    363530205, 379625062, 396432499, 413984066, 432312706, 451452825, 471440349,
    492312796, 514109346>>

\* exp(g) = 1 + g/1 * (1 + g/2 * (1 + g/3 * (1 + g/4 * (1 + g/5)))),
\* 28-bit fixed point, 0 <= g < (ln 2)/16; the partial results are computed
\* innermost first
ExpSeries(g) ==
  LET h5 == 2^28 + g \div 5
      h4 == 2^28 + QMul(g, h5) \div 4
      h3 == 2^28 + QMul(g, h4) \div 3
      h2 == 2^28 + QMul(g, h3) \div 2
      h1 == 2^28 + QMul(g, h2)
  IN  <<h5, h4, h3, h2, h1>>[5]

\* 2^(fq / 2^28) for 0 <= fq < 2^28, 28-bit fixed point:
\* 2^(j/16) * exp(rest * ln 2) where fq / 2^28 = j/16 + rest
Pow2Fraction(fq) ==
  QMul(Pow2Table[fq \div 2^24 + 1], ExpSeries(QMul(fq % 2^24, 186065279)))

\* 2 ** t
FPow2(t) ==
  IF t = Bottom THEN Bottom
  ELSE IF IsNaN(t) THEN NaN
  ELSE IF t.c = "pinf" THEN PInf
  ELSE IF t.c = "ninf" THEN Zero
  ELSE IF t.m = 0 \/ t.e < -52 THEN One
  ELSE IF t.e > -12 THEN (IF t.m > 0 THEN PInf ELSE Zero)
  ELSE LET k  == -t.e
           \* t = n + fq / 2^28 with n = floor(t)
           n  == IF k <= 28 THEN t.m \div 2^k ELSE (IF t.m < 0 THEN -1 ELSE 0)
           fq == IF k <= 28 THEN (t.m % 2^k) * 2^(28 - k)
                 ELSE (t.m \div 2^(k - 28)) % 2^28
       IN  Normalize(Pow2Fraction(fq), n - 28)

\* 10 ** z
FPow10(z) == FPow2(FMul(z, Fin(13933176, -22)))

\* Newton's iteration y <- (y + a/y)/2
RECURSIVE SqrtIter(_, _, _)
SqrtIter(a, y, n) ==
  IF n = 0 THEN y
  ELSE Bind(FDiv(FAdd(y, FDiv(a, y)), Two), LAMBDA z : SqrtIter(a, z, n - 1))

\* Math.sqrt(a)
FSqrt(a) ==
  IF a = Bottom THEN Bottom
  ELSE IF IsNaN(a) \/ IsNeg(a) THEN NaN
  ELSE IF a.c = "pinf" THEN PInf
  ELSE IF a.m = 0 THEN Zero
  ELSE SqrtIter(a, Fin(Two23, (a.e + 23) \div 2 - 23), 6)

(***************************************************************************)
(* Global constants and Antoine constants                                  *)
(***************************************************************************)
MAXITERATIONS == 100
TOL == Dec(1, 1000)

propaneConstants == [A |-> Dec(453678, 100000), B |-> Dec(114936, 100),
                     C |-> Dec(24906, 1000), mol_wt |-> Dec(44097, 1000),
                     hVap |-> Dec(698624159, 100000)]
butaneConstants  == [A |-> Dec(435576, 100000), B |-> Dec(1175581, 1000),
                     C |-> Dec(-2071, 1000), mol_wt |-> Dec(5812, 100),
                     hVap |-> Dec(963026533, 100000)]

PsiPerBar == Dec(14503774, 1000000)        \* 14.503773773
KelvinOffset == Dec(27315, 100)            \* 273.15

(***************************************************************************)
(* Utility functions                                                       *)
(***************************************************************************)
massToMolar(massRate, composition, lightConsts, heavyConsts) ==
  FDiv(massRate, FAdd(FMul(composition, lightConsts.mol_wt),
                      FMul(FSub(One, composition), heavyConsts.mol_wt)))

(***************************************************************************)
(* Vapor-liquid equilibrium                                                *)
(***************************************************************************)
boilingPointTemperature(pressure, antConsts) ==
  Bind(FLog10(FDiv(pressure, PsiPerBar)), LAMBDA logP :
  Bind(FSub(FDiv(antConsts.B, FSub(antConsts.A, logP)), antConsts.C), LAMBDA tempK :
    FAdd(FDiv(FMul(FSub(tempK, KelvinOffset), FromInt(9)), FromInt(5)), FromInt(32))))

vaporPressure(temperature, antConsts) ==
  Bind(FAdd(FDiv(FMul(FSub(temperature, FromInt(32)), FromInt(5)), FromInt(9)),
            KelvinOffset), LAMBDA tempK :
  Bind(FSub(antConsts.A, FDiv(antConsts.B, FAdd(tempK, antConsts.C))), LAMBDA logP :
  Bind(FPow10(logP), LAMBDA Pbar :
    FMul(Pbar, PsiPerBar))))

binaryequilibriumEquationFromX(temperature, pressure, liqMolFrac, lightAntConsts, heavyAntConsts) ==
  Bind(FMul(liqMolFrac, vaporPressure(temperature, lightAntConsts)), LAMBDA param1 :
  Bind(FMul(FSub(One, liqMolFrac), vaporPressure(temperature, heavyAntConsts)), LAMBDA param2 :
    FSub(pressure, FAdd(param1, param2))))

binaryequilibriumEquationFromY(temperature, pressure, vaporMolFrac, lightAntConsts, heavyAntConsts) ==
  Bind(FDiv(FMul(vaporMolFrac, pressure), vaporPressure(temperature, lightAntConsts)),
       LAMBDA param1 :
  Bind(FDiv(FMul(FSub(One, vaporMolFrac), pressure),
            vaporPressure(temperature, heavyAntConsts)), LAMBDA param2 :
    FSub(FAdd(param1, param2), One)))

\* The variables of the while loop of equilibriumTemperatureFromX/FromY.
\* status is "run" while the loop runs, "done" once its condition was found
\* false, and "stuck" once its body left tempGuess as it was: the loop has no
\* iteration cap, so every later iteration repeats that one and the loop
\* never ends.
LoopState(minT, maxT, tempGuess, status) ==
  [minT |-> minT, maxT |-> maxT, tempGuess |-> tempGuess, status |-> status]

\* the loop variables after the body assigned minT, maxT and the new guess
Narrowed(minT, maxT, guess, tempGuess) ==
  LoopState(minT, maxT, guess, IF guess = tempGuess THEN "stuck" ELSE "run")

\* the body with its two branches exchanged
LoopStepExchanged(st, result) ==
  IF result = Bottom THEN LoopState(st.minT, st.maxT, st.tempGuess, "stuck")
  ELSE IF ~FGt(FAbs(result), TOL) THEN LoopState(st.minT, st.maxT, st.tempGuess, "done")
  ELSE IF FGt(result, Zero)
  THEN Narrowed(st.tempGuess, st.maxT, FDiv(FAdd(st.maxT, st.tempGuess), Two), st.tempGuess)
  ELSE Narrowed(st.minT, st.tempGuess, FDiv(FAdd(st.minT, st.tempGuess), Two), st.tempGuess)

\* the test  Math.abs(result) > TOL  of the loop and, when it holds, the body
LoopStep(st, result) ==
  IF result = Bottom THEN LoopState(st.minT, st.maxT, st.tempGuess, "stuck")
  ELSE IF ~FGt(FAbs(result), TOL) THEN LoopState(st.minT, st.maxT, st.tempGuess, "done")
  ELSE IF FGt(result, Zero)
  THEN Narrowed(st.minT, st.tempGuess, FDiv(FAdd(st.minT, st.tempGuess), Two), st.tempGuess)
  ELSE Narrowed(st.tempGuess, st.maxT, FDiv(FAdd(st.maxT, st.tempGuess), Two), st.tempGuess)

\* the value returned after the loop; no value when the loop never ends
LoopResult(st) == IF st.status = "done" THEN st.tempGuess ELSE Bottom

\* up to 2^n iterations of the loop of equilibriumTemperatureFromX
RECURSIVE IterateFromX(_, _, _, _, _, _)
IterateFromX(st, n, pressure, liquidMolFrac, lightAntConsts, heavyAntConsts) ==
  IF st.status # "run" THEN st
  ELSE IF n = 0
  THEN LoopStep(st, binaryequilibriumEquationFromX(st.tempGuess, pressure, liquidMolFrac,
                                                   lightAntConsts, heavyAntConsts))
  ELSE IterateFromX(IterateFromX(st, n - 1, pressure, liquidMolFrac,
                                 lightAntConsts, heavyAntConsts),
                    n - 1, pressure, liquidMolFrac, lightAntConsts, heavyAntConsts)

\* the loop of equilibriumTemperatureFromX, run to its end in blocks of 32 iterations
RECURSIVE WhileFromX(_, _, _, _, _)
WhileFromX(st, pressure, liquidMolFrac, lightAntConsts, heavyAntConsts) ==
  IF st.status # "run" THEN st
  ELSE WhileFromX(IterateFromX(st, 5, pressure, liquidMolFrac, lightAntConsts, heavyAntConsts),
                  pressure, liquidMolFrac, lightAntConsts, heavyAntConsts)

equilibriumTemperatureFromX(pressure, liquidMolFrac, lightAntConsts, heavyAntConsts) ==
  IF liquidMolFrac = Bottom THEN Bottom
  ELSE Bind(boilingPointTemperature(pressure, lightAntConsts), LAMBDA maxT :
       Bind(boilingPointTemperature(pressure, heavyAntConsts), LAMBDA minT :
         LoopResult(WhileFromX(LoopState(minT, maxT, FDiv(FAdd(maxT, minT), Two), "run"),
                               pressure, liquidMolFrac, lightAntConsts, heavyAntConsts))))

\* up to 2^n iterations of the loop of equilibriumTemperatureFromY
RECURSIVE IterateFromY(_, _, _, _, _, _)
IterateFromY(st, n, pressure, vaporMolFrac, lightAntConsts, heavyAntConsts) ==
  IF st.status # "run" THEN st
  ELSE IF n = 0
  THEN LoopStep(st, binaryequilibriumEquationFromY(st.tempGuess, pressure, vaporMolFrac,
                                                   lightAntConsts, heavyAntConsts))
  ELSE IterateFromY(IterateFromY(st, n - 1, pressure, vaporMolFrac,
                                 lightAntConsts, heavyAntConsts),
                    n - 1, pressure, vaporMolFrac, lightAntConsts, heavyAntConsts)

\* the loop of equilibriumTemperatureFromY, run to its end in blocks of 32 iterations
RECURSIVE WhileFromY(_, _, _, _, _)
WhileFromY(st, pressure, vaporMolFrac, lightAntConsts, heavyAntConsts) ==
  IF st.status # "run" THEN st
  ELSE WhileFromY(IterateFromY(st, 5, pressure, vaporMolFrac, lightAntConsts, heavyAntConsts),
                  pressure, vaporMolFrac, lightAntConsts, heavyAntConsts)

equilibriumTemperatureFromY(pressure, vaporMolFrac, lightAntConsts, heavyAntConsts) ==
  IF vaporMolFrac = Bottom THEN Bottom
  ELSE Bind(boilingPointTemperature(pressure, lightAntConsts), LAMBDA maxT :
       Bind(boilingPointTemperature(pressure, heavyAntConsts), LAMBDA minT :
         LoopResult(WhileFromY(LoopState(minT, maxT, FDiv(FAdd(maxT, minT), Two), "run"),
                               pressure, vaporMolFrac, lightAntConsts, heavyAntConsts))))

liqMolFraction(pressure, vaporMolFrac, lightAntConsts, heavyAntConsts) ==
  Bind(equilibriumTemperatureFromY(pressure, vaporMolFrac, lightAntConsts, heavyAntConsts),
       LAMBDA temperature :
    FDiv(FMul(vaporMolFrac, pressure), vaporPressure(temperature, lightAntConsts)))

vapMolFraction(pressure, liquidMolFrac, lightAntConsts, heavyAntConsts) ==
  Bind(equilibriumTemperatureFromX(pressure, liquidMolFrac, lightAntConsts, heavyAntConsts),
       LAMBDA temperature :
    FDiv(FMul(liquidMolFrac, vaporPressure(temperature, lightAntConsts)), pressure))

(***************************************************************************)
(* Distillation material balance equations                                 *)
(***************************************************************************)
distillateRateOf(feedRate, feedXp, distillateXp, bottomsXp) ==
  FDiv(FMul(feedRate, FSub(feedXp, bottomsXp)), FSub(distillateXp, bottomsXp))

\* a split whose bottoms rate is feedRate + distillateRate: it breaks the
\* overall balance
productRatesUnbalanced(feedRate, feedXp, distillateXp, bottomsXp) ==
  <<distillateRateOf(feedRate, feedXp, distillateXp, bottomsXp),
    FAdd(feedRate, distillateRateOf(feedRate, feedXp, distillateXp, bottomsXp))>>

\* a split that answers equal product compositions with all of the feed in
\* the distillate instead of dividing by zero
productRatesGuarded(feedRate, feedXp, distillateXp, bottomsXp) ==
  IF distillateXp = bottomsXp THEN <<feedRate, Zero>>
  ELSE <<distillateRateOf(feedRate, feedXp, distillateXp, bottomsXp),
         FSub(feedRate, distillateRateOf(feedRate, feedXp, distillateXp, bottomsXp))>>

\* returns the pair [distillateRate, bottomsRate]
productRates(feedRate, feedXp, distillateXp, bottomsXp) ==
  <<distillateRateOf(feedRate, feedXp, distillateXp, bottomsXp),
    FSub(feedRate, distillateRateOf(feedRate, feedXp, distillateXp, bottomsXp))>>

boilUpRatio(refluxRatio, distillateRate, bottomsRate) ==
  FDiv(FMul(FAdd(refluxRatio, One), distillateRate), bottomsRate)

rectifyingOperatingLine(refluxRatio, distillateMolFrac, liquidMolFrac) ==
  FAdd(FMul(FDiv(refluxRatio, FAdd(refluxRatio, One)), liquidMolFrac),
       FDiv(distillateMolFrac, FAdd(refluxRatio, One)))

strippingOperatingLine(boilUp, bottomsMolFrac, vaporMolFraction) ==
  FDiv(FMul(FAdd(vaporMolFraction, FDiv(bottomsMolFrac, boilUp)), boilUp),
       FAdd(boilUp, One))

\* rectifyingSection from the assignment  liqMolFrac = liqMolFraction(pressure,
\* vapMolFrac, ...)  on (before the loop, and at the end of its body), i being
\* the value of the loop variable at the next test of the loop
RECURSIVE RectifyingLoop(_, _, _, _, _, _, _, _)
RectifyingLoop(i, vapMolFrac, refluxRatio, pressure, distillateMolFrac, feedTray, lightAntConsts, heavyAntConsts) ==
  Bind(liqMolFraction(pressure, vapMolFrac, lightAntConsts, heavyAntConsts),
       LAMBDA liqMolFrac :
    IF i <= feedTray
    THEN RectifyingLoop(i + 1,
                        rectifyingOperatingLine(refluxRatio, distillateMolFrac, liqMolFrac),
                        refluxRatio, pressure, distillateMolFrac, feedTray,
                        lightAntConsts, heavyAntConsts)
    ELSE liqMolFrac)

rectifyingSection(refluxRatio, pressure, distillateMolFrac, feedTray, lightAntConsts, heavyAntConsts) ==
  RectifyingLoop(2, distillateMolFrac, refluxRatio, pressure, distillateMolFrac, feedTray,
                 lightAntConsts, heavyAntConsts)

\* strippingSection from the assignment  vapMolFrac = vapMolFraction(pressure,
\* liqMolFrac, ...)  on (before the loop, and at the end of its body), i being
\* the value of the loop variable at the next test of the loop
RECURSIVE StrippingLoop(_, _, _, _, _, _, _, _)
StrippingLoop(i, liqMolFrac, boilUp, pressure, bottomsMolFrac, feedTray, lightAntConsts, heavyAntConsts) ==
  Bind(vapMolFraction(pressure, liqMolFrac, lightAntConsts, heavyAntConsts),
       LAMBDA vapMolFrac :
    IF i >= feedTray
    THEN StrippingLoop(i - 1, strippingOperatingLine(boilUp, bottomsMolFrac, vapMolFrac),
                       boilUp, pressure, bottomsMolFrac, feedTray,
                       lightAntConsts, heavyAntConsts)
    ELSE liqMolFrac)

strippingSection(boilUp, pressure, bottomsMolFrac, feedTray, totalTrays, lightAntConsts, heavyAntConsts) ==
  StrippingLoop(totalTrays, bottomsMolFrac, boilUp, pressure, bottomsMolFrac, feedTray,
                lightAntConsts, heavyAntConsts)

\* boilUpRatio applied to the pair returned by productRates
boilUpOf(refluxRatio, rates) == boilUpRatio(refluxRatio, rates[1], rates[2])

feedTrayDelta(guessR, feedRate, xFeed, xDistillate, xBottoms, pressure, feedTray, totalTrays, lightAntConsts, heavyAntConsts) ==
  Bind(rectifyingSection(guessR, pressure, xDistillate, feedTray,
                         lightAntConsts, heavyAntConsts), LAMBDA xRectifying :
  Bind(strippingSection(boilUpOf(guessR, productRates(feedRate, xFeed, xDistillate, xBottoms)),
                        pressure, xBottoms, feedTray, totalTrays,
                        lightAntConsts, heavyAntConsts), LAMBDA xStripping :
    FSub(xRectifying, xStripping)))

minimumRefluxRatio(feedXp, distillateXp, pressure, lightAntConsts, heavyAntConsts) ==
  Bind(vapMolFraction(pressure, feedXp, lightAntConsts, heavyAntConsts),
       LAMBDA equilibriumYp :
  Bind(FDiv(FSub(distillateXp, equilibriumYp), FSub(distillateXp, feedXp)), LAMBDA slope :
    FDiv(slope, FSub(One, slope))))

\* vaporPressure(temperature, light) / vaporPressure(temperature, heavy)
relativeVolatility(temperature, lightAntConsts, heavyAntConsts) ==
  FDiv(vaporPressure(temperature, lightAntConsts), vaporPressure(temperature, heavyAntConsts))

minimumTrays(distillateXp, bottomsXp, pressure, lightAntConsts, heavyAntConsts) ==
  Bind(equilibriumTemperatureFromX(pressure, distillateXp, lightAntConsts, heavyAntConsts),
       LAMBDA topTemp :
  Bind(relativeVolatility(topTemp, lightAntConsts, heavyAntConsts), LAMBDA alphaTop :
  Bind(equilibriumTemperatureFromX(pressure, bottomsXp, lightAntConsts, heavyAntConsts),
       LAMBDA bottomTemp :
  Bind(relativeVolatility(bottomTemp, lightAntConsts, heavyAntConsts), LAMBDA alphaBottom :
  Bind(FSqrt(FMul(alphaTop, alphaBottom)), LAMBDA averageAlpha :
    FDiv(FLn(FDiv(FMul(FDiv(distillateXp, FSub(One, distillateXp)),
                       FSub(One, bottomsXp)), bottomsXp)),
         FLn(averageAlpha)))))))

(***************************************************************************)
(* Data utility functions                                                  *)
(***************************************************************************)
\* a tray object whose trayNumber is one too large
createTrayObjectShifted(trayNumber, temperature, liqComp, vapComp, refluxRatio, boilUp) ==
  [trayNumber |-> trayNumber + 1, temperature |-> temperature, liqComp |-> liqComp,
   vapComp |-> vapComp, refluxRatio |-> refluxRatio, boilUp |-> boilUp]

createTrayObject(trayNumber, temperature, liqComp, vapComp, refluxRatio, boilUp) ==
  [trayNumber |-> trayNumber, temperature |-> temperature, liqComp |-> liqComp,
   vapComp |-> vapComp, refluxRatio |-> refluxRatio, boilUp |-> boilUp]

\* an array element that was never assigned (a hole of  new Array(n))
Undefined == createTrayObject(0, NaN, NaN, NaN, NaN, NaN)

\* new Array(n): indices 0 .. n-1, none of them assigned
NewArray(n) == [j \in 0 .. n - 1 |-> Undefined]

\* the array after  array[index] = value; assigning past the end lengthens it
ArrayAssign(array, index, value) ==
  [j \in (DOMAIN array) \cup (0 .. index) |->
     IF j = index THEN value
     ELSE IF j \in DOMAIN array THEN array[j] ELSE Undefined]

\* the assignment counts after one more assignment to index
CountAssign(counts, index) ==
  [j \in (DOMAIN counts) \cup (0 .. index) |->
     (IF j \in DOMAIN counts THEN counts[j] ELSE 0) + (IF j = index THEN 1 ELSE 0)]

(***************************************************************************)
(* The page (app.js)                                                       *)
(***************************************************************************)
\* a || d  for a number a: d when a is 0
OrDefault(a, d) == IF a = 0 THEN d ELSE a

\* Math.round(a) = floor(a + 1/2)
FRound(a) ==
  IF a = Bottom THEN Bottom
  ELSE IF ~IsFinite(a) \/ a.m = 0 \/ a.e >= 0 THEN a
  ELSE IF a.e < -25 THEN Zero
  ELSE FromInt((a.m + 2^(-a.e - 1)) \div 2^(-a.e))

\* input.valueAsNumber / 100, a composition
Percent(n) == FDiv(FromInt(n), FromInt(100))

\* columnPressureInput.valueAsNumber + 14.7, psia
Absolute(p) == FAdd(FromInt(p), Dec(147, 10))

\* line 212 of validateRawInputs: minimumTrays(...) - 1 on the values of the form f
minTraysOf(f) ==
  FSub(minimumTrays(Percent(f.distillateComposition), Percent(f.bottomsComposition),
                    Absolute(f.columnPressure), propaneConstants, butaneConstants), One)

\* the inputs on which validateRawInputs sets a custom validity message
customValidity(f, minTrays) ==
  {id \in {"distillateComposition"} :
      \/ f.distillateComposition <= f.bottomsComposition
      \/ f.distillateComposition <= f.feedComposition}
  \cup {id \in {"bottomsComposition"} : f.bottomsComposition >= f.feedComposition}
  \cup {id \in {"feedTray"} : f.feedTray > f.totalTrays \/ f.feedTray < 1}
  \cup {id \in {"totalTrays"} : FLt(FromInt(f.totalTrays), FRound(minTrays))}

\* what validateRawInputs returns, form.checkValidity(): no input carries a
\* custom validity message (the values of the forms considered satisfy the
\* constraints the elements themselves declare)
validateRawInputs(f, minTrays) == customValidity(f, minTrays) = {}

\* the feed temperature computed by updateFeedInfo
updateFeedInfo(f) ==
  IF f.feedComposition > 0
  THEN equilibriumTemperatureFromX(FAdd(FromInt(OrDefault(f.columnPressure, 100)), Dec(147, 10)),
                                   Percent(f.feedComposition),
                                   propaneConstants, butaneConstants)
  ELSE Zero

\* populateColumnElement labelling tray 5 whatever the feed tray input holds
populateColumnElementDefaultFeed(numTrays, feedTrayNum) ==
  [warning |-> FALSE,
   nodes |-> [n \in 1 .. numTrays |-> [stage |-> n, feed |-> n = 5, data |-> 0]]]

\* the content of the column element after populateColumnElement(numTrays):
\* one node per tray, none showing data (data = 0)
populateColumnElement(numTrays, feedTrayNum) ==
  [warning |-> FALSE,
   nodes |-> [n \in 1 .. numTrays |-> [stage |-> n, feed |-> n = feedTrayNum, data |-> 0]]]

\* the content of the column element after  innerHTML = '<h2>WARNING!</h2>...'
WarningContent == [warning |-> TRUE, nodes |-> << >>]

\* the content of the column element after the loop of updateTrayData: the
\* node of stage n shows the data of the tray numbered n (data = n), trays
\* numbered above the form's total tray count go to the reboiler element
updateTrayData(content, trayArray, totalTraysValue) ==
  [content EXCEPT !.nodes =
     [n \in DOMAIN content.nodes |->
        IF \E j \in DOMAIN trayArray :
              /\ trayArray[j].trayNumber = content.nodes[n].stage
              /\ ~(trayArray[j].trayNumber > totalTraysValue)
        THEN [content.nodes[n] EXCEPT !.data = content.nodes[n].stage]
        ELSE content.nodes[n]]]

\* the arguments runSimulation passes to columnSolver for the form f
SolverCall(f) ==
  [feedRate    |-> massToMolar(FromInt(f.feedRate), Percent(f.feedComposition),
                               propaneConstants, butaneConstants),
   xFeed       |-> Percent(f.feedComposition),
   xDistillate |-> Percent(f.distillateComposition),
   xBottoms    |-> Percent(f.bottomsComposition),
   pressure    |-> Absolute(f.columnPressure),
   feedTray    |-> f.feedTray,
   totalTrays  |-> f.totalTrays + 1,
   refluxRatio |-> Zero]

(***************************************************************************)
(* State                                                                   *)
(***************************************************************************)
VARIABLES
  args,        \* the arguments of the core call in progress
  pc,          \* position of the program
  \* columnSolver
  minR, maxR, residualLo, residualHi, guessR, error, k, i,   \* its locals
  ret,         \* the value it returned (once pc = "done")
  evals,       \* number of feedTrayDelta evaluations it has made
  \* productRates
  rates,       \* the pair it returned
  \* generateColumnData
  boilUp, vapComp, liqComp, temp,   \* its locals
  trayIndex,   \* the loop variable i of its two loops
  trays,       \* the array it builds: index |-> tray object
  writes,      \* index |-> number of assignments made to trays[index]
  \* the page (app.js)
  form,                    \* the values held by the form's inputs
  valid,                   \* what validateRawInputs returned for the last event
  coreCalls,               \* core functions invoked while handling the last event
  lastSimulationFailed, previousTrayCount, previousFeedTray,
  lastReturn,              \* how the last runSimulation that returned did so
  column,                  \* content of the element with id "column"
  \* equilibriumTemperatureFromX / equilibriumTemperatureFromY
  solve,                   \* which of the two is running: "X" or "Y"
  molFrac,                 \* its argument liquidMolFrac / vaporMolFrac
  minT, maxT, tempGuess, result,  \* its locals
  \* rectifyingSection / strippingSection
  section,                 \* which of the two is running
  vapMolFrac, liqMolFrac,  \* its locals
  tray,                    \* its loop variable i
  steps                    \* executions of its loop body so far

solverVars == <<minR, maxR, residualLo, residualHi, guessR, error, k, i, ret, evals>>
columnVars == <<boilUp, vapComp, liqComp, temp, trayIndex, trays, writes>>
pageVars   == <<form, valid, coreCalls, lastSimulationFailed, previousTrayCount,
                previousFeedTray, lastReturn, column>>
equilibriumVars == <<solve, molFrac, minT, maxT, tempGuess, result>>
sectionVars == <<section, vapMolFrac, liqMolFrac, tray, steps>>
vars == <<args, pc, solverVars, rates, columnVars, pageVars, equilibriumVars, sectionVars>>

\* values of the variables of a function that has not been called
SolverIdle ==
  /\ minR = Zero /\ maxR = Zero /\ residualLo = Zero /\ residualHi = Zero
  /\ guessR = Zero /\ error = Zero /\ k = 0 /\ i = 0
  /\ ret = Zero /\ evals = 0
RatesIdle == rates = <<Zero, Zero>>
ColumnIdle ==
  /\ boilUp = Zero /\ vapComp = Zero /\ liqComp = Zero /\ temp = Zero
  /\ trayIndex = 0 /\ trays = << >> /\ writes = << >>
PageIdle ==
  /\ form = << >> /\ valid = FALSE /\ coreCalls = {}
  /\ lastSimulationFailed = FALSE /\ previousTrayCount = 0 /\ previousFeedTray = 0
  /\ lastReturn = "none"
  /\ column = << >>

EquilibriumIdle ==
  /\ solve = "" /\ molFrac = Zero
  /\ minT = Zero /\ maxT = Zero /\ tempGuess = Zero /\ result = Zero

SectionIdle ==
  /\ section = "" /\ vapMolFrac = Zero /\ liqMolFrac = Zero /\ tray = 0 /\ steps = 0

\* the arguments when no core call is in progress
NoCall ==
  [feedRate |-> Zero, xFeed |-> Zero, xDistillate |-> Zero, xBottoms |-> Zero,
   pressure |-> Zero, feedTray |-> 0, totalTrays |-> 0, refluxRatio |-> Zero]

(***************************************************************************)
(* columnSolver, one step per loop iteration                               *)
(***************************************************************************)
Sentinel == FromInt(-1)
\* a floor of 0 instead of 1e-8
EpsilonZero == Zero
Epsilon == Dec(1, 100000000)               \* 1e-8

\* an acceptance test a thousand times looser: Math.abs(residual) < 1
WithinLooseTolerance(residual) == FLt(FAbs(residual), One)

\* Math.abs(residual) < TOL, the acceptance test of the three return points
WithinTolerance(residual) == FLt(FAbs(residual), TOL)

\* feedTrayDelta at reflux ratio r for the arguments a of a call
Residual(r, a) ==
  feedTrayDelta(r, a.feedRate, a.xFeed, a.xDistillate, a.xBottoms, a.pressure,
                a.feedTray, a.totalTrays, propaneConstants, butaneConstants)

\* lines 336-342: the lower bound and its residual
LowerBound ==
  /\ pc = "entry"
  /\ \E m \in {FMax(Epsilon, minimumRefluxRatio(args.xFeed, args.xDistillate, args.pressure,
                                                propaneConstants, butaneConstants))} :
     \E r \in {IF m = Bottom THEN Bottom ELSE Residual(m, args)} :
         IF r = Bottom
         THEN /\ pc' = "diverged"
              /\ UNCHANGED <<minR, maxR, residualLo, residualHi, ret, evals>>
         ELSE /\ minR' = m
              /\ residualLo' = r
              /\ evals' = evals + 1
              /\ IF WithinTolerance(r)
                 THEN /\ ret' = m
                      /\ pc' = "done"
                      /\ UNCHANGED <<maxR, residualHi>>
                 ELSE /\ maxR' = m
                      /\ residualHi' = r
                      /\ pc' = "doubling"
                      /\ UNCHANGED ret
  /\ UNCHANGED <<args, guessR, error, k, i, rates, columnVars, pageVars, equilibriumVars, sectionVars>>

\* a doubling search in which a non-finite residual does not use up an iteration
DoublingRetriesNonFinite ==
  /\ pc = "doubling"
  /\ k < MAXITERATIONS
  /\ \E m \in {FMul(maxR, Two)} :
     \E r \in {Residual(m, args)} :
         IF r = Bottom
         THEN /\ pc' = "diverged"
              /\ UNCHANGED <<maxR, residualHi, k, ret, evals>>
         ELSE /\ maxR' = m
              /\ residualHi' = r
              /\ evals' = evals + 1
              /\ IF ~IsFinite(r)
                 THEN UNCHANGED <<k, pc, ret>>
                 ELSE IF WithinTolerance(r)
                 THEN ret' = m /\ pc' = "done" /\ UNCHANGED k
                 ELSE IF SignDiffers(r, residualLo)
                 THEN pc' = "bracket" /\ UNCHANGED <<k, ret>>
                 ELSE k' = k + 1 /\ UNCHANGED <<pc, ret>>
  /\ UNCHANGED <<args, minR, residualLo, guessR, error, i, rates, columnVars, pageVars, equilibriumVars, sectionVars>>

\* lines 344-350: one iteration of the doubling search
Doubling ==
  /\ pc = "doubling"
  /\ k < MAXITERATIONS
  /\ \E m \in {FMul(maxR, Two)} :
     \E r \in {Residual(m, args)} :
         IF r = Bottom
         THEN /\ pc' = "diverged"
              /\ UNCHANGED <<maxR, residualHi, k, ret, evals>>
         ELSE /\ maxR' = m
              /\ residualHi' = r
              /\ evals' = evals + 1
              /\ IF ~IsFinite(r)
                 THEN k' = k + 1 /\ UNCHANGED <<pc, ret>>
                 ELSE IF WithinTolerance(r)
                 THEN ret' = m /\ pc' = "done" /\ UNCHANGED k
                 ELSE IF SignDiffers(r, residualLo)
                 THEN pc' = "bracket" /\ UNCHANGED <<k, ret>>
                 ELSE k' = k + 1 /\ UNCHANGED <<pc, ret>>
  /\ UNCHANGED <<args, minR, residualLo, guessR, error, i, rates, columnVars, pageVars, equilibriumVars, sectionVars>>

\* line 344: the doubling search ran out of iterations
DoublingExhausted ==
  /\ pc = "doubling"
  /\ ~(k < MAXITERATIONS)
  /\ pc' = "bracket"
  /\ UNCHANGED <<args, solverVars, rates, columnVars, pageVars, equilibriumVars, sectionVars>>

\* a bracket check that compares the signs only, without Number.isFinite
BracketCheckSignsOnly ==
  /\ pc = "bracket"
  /\ IF ~SignDiffers(residualHi, residualLo)
     THEN /\ ret' = Sentinel
          /\ pc' = "done"
          /\ UNCHANGED <<guessR, error, i>>
     ELSE /\ guessR' = FDiv(FAdd(minR, maxR), Two)
          /\ error' = Zero
          /\ i' = 0
          /\ pc' = "bisection"
          /\ UNCHANGED ret
  /\ UNCHANGED <<args, minR, maxR, residualLo, residualHi, k, evals, rates,
                 columnVars, pageVars, equilibriumVars, sectionVars>>

\* lines 352-357: is [minR, maxR] a bracket?
BracketCheck ==
  /\ pc = "bracket"
  /\ IF ~IsFinite(residualHi) \/ ~SignDiffers(residualHi, residualLo)
     THEN /\ ret' = Sentinel
          /\ pc' = "done"
          /\ UNCHANGED <<guessR, error, i>>
     ELSE /\ guessR' = FDiv(FAdd(minR, maxR), Two)
          /\ error' = Zero
          /\ i' = 0
          /\ pc' = "bisection"
          /\ UNCHANGED ret
  /\ UNCHANGED <<args, minR, maxR, residualLo, residualHi, k, evals, rates,
                 columnVars, pageVars, equilibriumVars, sectionVars>>

\* a bisection that moves the other bound: the upper one on a residual that is
\* not negative, the lower one on a negative residual
BisectionOtherSide ==
  /\ pc = "bisection"
  /\ i < MAXITERATIONS
  /\ \E e \in {Residual(guessR, args)} :
         IF e = Bottom
         THEN /\ pc' = "diverged"
              /\ UNCHANGED <<minR, maxR, guessR, error, i, ret, evals>>
         ELSE /\ error' = e
              /\ evals' = evals + 1
              /\ IF WithinTolerance(e)
                 THEN /\ ret' = guessR
                      /\ pc' = "done"
                      /\ UNCHANGED <<minR, maxR, guessR, i>>
                 ELSE /\ IF ~FLt(e, Zero)
                         THEN /\ maxR' = guessR
                              /\ guessR' = FDiv(FAdd(guessR, minR), Two)
                              /\ UNCHANGED minR
                         ELSE /\ minR' = guessR
                              /\ guessR' = FDiv(FAdd(maxR, guessR), Two)
                              /\ UNCHANGED maxR
                      /\ i' = i + 1
                      /\ UNCHANGED <<pc, ret>>
  /\ UNCHANGED <<args, residualLo, residualHi, k, rates, columnVars, pageVars, equilibriumVars, sectionVars>>

\* lines 358-371: one iteration of the bisection
Bisection ==
  /\ pc = "bisection"
  /\ i < MAXITERATIONS
  /\ \E e \in {Residual(guessR, args)} :
         IF e = Bottom
         THEN /\ pc' = "diverged"
              /\ UNCHANGED <<minR, maxR, guessR, error, i, ret, evals>>
         ELSE /\ error' = e
              /\ evals' = evals + 1
              /\ IF WithinTolerance(e)
                 THEN /\ ret' = guessR
                      /\ pc' = "done"
                      /\ UNCHANGED <<minR, maxR, guessR, i>>
                 ELSE /\ IF FLt(e, Zero)
                         THEN /\ maxR' = guessR
                              /\ guessR' = FDiv(FAdd(guessR, minR), Two)
                              /\ UNCHANGED minR
                         ELSE /\ minR' = guessR
                              /\ guessR' = FDiv(FAdd(maxR, guessR), Two)
                              /\ UNCHANGED maxR
                      /\ i' = i + 1
                      /\ UNCHANGED <<pc, ret>>
  /\ UNCHANGED <<args, residualLo, residualHi, k, rates, columnVars, pageVars, equilibriumVars, sectionVars>>

\* a solver whose exhausted bisection returns its last guess
BisectionExhaustedReturnsGuess ==
  /\ pc = "bisection"
  /\ ~(i < MAXITERATIONS)
  /\ ret' = guessR
  /\ pc' = "done"
  /\ UNCHANGED <<args, minR, maxR, residualLo, residualHi, guessR, error, k, i, evals,
                 rates, columnVars, pageVars, equilibriumVars, sectionVars>>

\* lines 372-373: the bisection ran out of iterations
BisectionExhausted ==
  /\ pc = "bisection"
  /\ ~(i < MAXITERATIONS)
  /\ ret' = Sentinel
  /\ pc' = "done"
  /\ UNCHANGED <<args, minR, maxR, residualLo, residualHi, guessR, error, k, i, evals,
                 rates, columnVars, pageVars, equilibriumVars, sectionVars>>

columnSolver ==
  \/ LowerBound
  \/ Doubling
  \/ DoublingExhausted
  \/ BracketCheck
  \/ Bisection
  \/ BisectionExhausted

(***************************************************************************)
(* Calls of columnSolver                                                   *)
(***************************************************************************)
Frac(n, d) == [n |-> n, d |-> d]
Call(F, xF, xD, xB, P, ft, tt) ==
  [feedRate |-> FromInt(F), xFeed |-> Dec(xF.n, xF.d), xDistillate |-> Dec(xD.n, xD.d),
   xBottoms |-> Dec(xB.n, xB.d), pressure |-> Dec(P.n, P.d),
   feedTray |-> ft, totalTrays |-> tt, refluxRatio |-> Zero]

\* 100 psig
Psia == Frac(1147, 10)

\* the calls made: specifications that are returned at the lower bound (at
\* the minimum reflux ratio and at the 1e-8 floor), in the doubling search and
\* in the bisection, one without a bracket, one that exhausts the bisection,
\* one with xFeed = xDistillate (minimumRefluxRatio is NaN), one with
\* xFeed = xDistillate and the feed tray below the column, one with a
\* distillate composition above 1, and one with xFeed < xBottoms (its lower
\* residual is negative and its upper residual positive)
Calls ==
  { Call(100, Frac(5, 10), Frac(8, 10),   Frac(4, 10),   Psia, 3, 5),
    Call(100, Frac(3, 10), Frac(6, 10),   Frac(2, 10),   Psia, 1, 4),
    Call(100, Frac(5, 10), Frac(8, 10),   Frac(4, 10),   Psia, 1, 2),
    Call(100, Frac(2, 10), Frac(4, 10),   Frac(1, 10),   Psia, 1, 1),
    Call(100, Frac(5, 10), Frac(95, 100), Frac(5, 100),  Psia, 2, 4),
    Call(100, Frac(5, 10), Frac(6, 10),   Frac(1, 10),   Psia, 1, 1),
    Call(100, Frac(5, 10), Frac(99, 100), Frac(4, 10),   Psia, 3, 5),
    Call(100, Frac(5, 10), Frac(5, 10),   Frac(2, 10),   Psia, 1, 1),
    Call(100, Frac(5, 10), Frac(5, 10),   Frac(225, 1000), Psia, 1, 0),
    Call(100, Frac(5, 10), Frac(15, 10),  Frac(4, 10),   Psia, 1, 2),
    Call(100, Frac(5, 100), Frac(9, 10),  Frac(2, 10),   Psia, 1, 1) }

\* the precondition of the core: purity ordering and feed tray within the column
ValidSpecification(a) ==
  /\ FLt(a.xBottoms, a.xFeed) /\ FLt(a.xFeed, a.xDistillate)
  /\ 1 <= a.feedTray /\ a.feedTray <= a.totalTrays

Init ==
  /\ args \in Calls
  /\ pc = "entry"
  /\ SolverIdle /\ RatesIdle /\ ColumnIdle /\ PageIdle /\ EquilibriumIdle /\ SectionIdle

Next == columnSolver

Spec == Init /\ [][Next]_vars

(***************************************************************************)
(* Calls of productRates                                                   *)
(***************************************************************************)
Steps == 10
Compositions == {Dec(j, Steps) : j \in 0 .. Steps}
FeedRates == {FromInt(0), FromInt(1), FromInt(100), FromInt(2500)}

RateCalls ==
  {[NoCall EXCEPT !.feedRate = F, !.xFeed = xF, !.xDistillate = xD, !.xBottoms = xB] :
     F \in FeedRates, xF \in Compositions, xD \in Compositions, xB \in Compositions}

InitRates ==
  /\ args \in RateCalls
  /\ pc = "rates"
  /\ SolverIdle /\ RatesIdle /\ ColumnIdle /\ PageIdle /\ EquilibriumIdle /\ SectionIdle

ProductRates ==
  /\ pc = "rates"
  /\ rates' = productRates(args.feedRate, args.xFeed, args.xDistillate, args.xBottoms)
  /\ pc' = "returned"
  /\ UNCHANGED <<args, solverVars, columnVars, pageVars, equilibriumVars, sectionVars>>

NextRates == ProductRates

SpecRates == InitRates /\ [][NextRates]_vars

(***************************************************************************)
(* generateColumnData, one step per loop iteration                         *)
(***************************************************************************)
\* lines 454-459 and the initialisation of the first loop
ColumnEntry ==
  /\ pc = "generate"
  /\ \E r \in {productRates(args.feedRate, args.xFeed, args.xDistillate, args.xBottoms)} :
       /\ rates' = r
       /\ boilUp' = boilUpOf(args.refluxRatio, r)
  /\ trays' = NewArray(args.totalTrays + 1)
  /\ writes' = [j \in 0 .. args.totalTrays |-> 0]
  /\ vapComp' = Zero
  /\ liqComp' = args.xDistillate
  /\ temp' = Zero
  /\ trayIndex' = 1
  /\ pc' = "rectifying"
  /\ UNCHANGED <<args, solverVars, pageVars, equilibriumVars, sectionVars>>

\* lines 461-466: one tray of the rectifying section
RectifyingTray ==
  /\ pc = "rectifying"
  /\ trayIndex <= args.feedTray
  /\ \E v \in {rectifyingOperatingLine(args.refluxRatio, args.xDistillate, liqComp)} :
     \E l \in {liqMolFraction(args.pressure, v, propaneConstants, butaneConstants)} :
     \E t \in {equilibriumTemperatureFromX(args.pressure, l, propaneConstants, butaneConstants)} :
         IF t = Bottom
         THEN /\ pc' = "diverged"
              /\ UNCHANGED <<vapComp, liqComp, temp, trayIndex, trays, writes>>
         ELSE /\ vapComp' = v
              /\ liqComp' = l
              /\ temp' = t
              /\ trays' = ArrayAssign(trays, trayIndex - 1,
                            createTrayObject(trayIndex, t, l, v, args.refluxRatio, boilUp))
              /\ writes' = CountAssign(writes, trayIndex - 1)
              /\ trayIndex' = trayIndex + 1
              /\ UNCHANGED pc
  /\ UNCHANGED <<args, solverVars, rates, boilUp, pageVars, equilibriumVars, sectionVars>>

\* lines 461, 468, 469: the first loop ends, the second is initialised
RectifyingEnd ==
  /\ pc = "rectifying"
  /\ ~(trayIndex <= args.feedTray)
  /\ vapComp' = args.xBottoms
  /\ trayIndex' = args.totalTrays + 1
  /\ pc' = "stripping"
  /\ UNCHANGED <<args, solverVars, rates, boilUp, liqComp, temp, trays, writes, pageVars, equilibriumVars, sectionVars>>

\* lines 469-474: one tray of the stripping section
StrippingTray ==
  /\ pc = "stripping"
  /\ trayIndex > args.feedTray
  /\ \E l \in {strippingOperatingLine(boilUp, args.xBottoms, vapComp)} :
     \E v \in {vapMolFraction(args.pressure, l, propaneConstants, butaneConstants)} :
     \E t \in {equilibriumTemperatureFromX(args.pressure, l, propaneConstants, butaneConstants)} :
         IF v = Bottom \/ t = Bottom
         THEN /\ pc' = "diverged"
              /\ UNCHANGED <<vapComp, liqComp, temp, trayIndex, trays, writes>>
         ELSE /\ liqComp' = l
              /\ vapComp' = v
              /\ temp' = t
              /\ trays' = ArrayAssign(trays, trayIndex - 1,
                            createTrayObject(trayIndex, t, l, v, args.refluxRatio, boilUp))
              /\ writes' = CountAssign(writes, trayIndex - 1)
              /\ trayIndex' = trayIndex - 1
              /\ UNCHANGED pc
  /\ UNCHANGED <<args, solverVars, rates, boilUp, pageVars, equilibriumVars, sectionVars>>

\* lines 469, 475: the second loop ends, the array is returned
StrippingEnd ==
  /\ pc = "stripping"
  /\ ~(trayIndex > args.feedTray)
  /\ pc' = "generated"
  /\ UNCHANGED <<args, solverVars, rates, columnVars, pageVars, equilibriumVars, sectionVars>>

generateColumnData ==
  \/ ColumnEntry
  \/ RectifyingTray
  \/ RectifyingEnd
  \/ StrippingTray
  \/ StrippingEnd

(***************************************************************************)
(* Calls of generateColumnData                                             *)
(***************************************************************************)
MaxTrays == 4
RefluxRatios == {Dec(1, 2), FromInt(1), FromInt(3)}
ColumnCompositions ==
  {<<Dec(5, 10), Dec(8, 10), Dec(4, 10)>>, <<Dec(3, 10), Dec(6, 10), Dec(2, 10)>>}

ColumnCalls ==
  {[feedRate |-> FromInt(100), xFeed |-> x[1], xDistillate |-> x[2], xBottoms |-> x[3],
    pressure |-> Dec(1147, 10), feedTray |-> c[1], totalTrays |-> c[2],
    refluxRatio |-> R] :
     x \in ColumnCompositions, R \in RefluxRatios,
     c \in {t \in (1 .. MaxTrays) \X (1 .. MaxTrays) : t[1] <= t[2]}}

InitColumn ==
  /\ args \in ColumnCalls
  /\ pc = "generate"
  /\ SolverIdle /\ RatesIdle /\ ColumnIdle /\ PageIdle /\ EquilibriumIdle /\ SectionIdle

NextColumn == generateColumnData

SpecColumn == InitColumn /\ [][NextColumn]_vars

(***************************************************************************)
(* The page: renderPage on every input event, runSimulation when valid     *)
(***************************************************************************)
FormOf(tt, ft, feed, dist, btms) ==
  [totalTrays |-> tt, feedTray |-> ft, columnPressure |-> 100, feedRate |-> 1000,
   feedComposition |-> feed, distillateComposition |-> dist, bottomsComposition |-> btms]

\* the values the user leaves in the form: specifications that are solved
\* (in the doubling search, at the lower bound), one without a bracket, one
\* and the same column with a specification that is solved, one that exhausts
\* the bisection, one with the product purities out of order and one with
\* the feed tray below the column
Forms ==
  { FormOf(1, 1, 50, 80, 40),
    FormOf(3, 2, 50, 80, 40),
    FormOf(2, 1, 50, 60, 10),
    FormOf(2, 1, 50, 80, 40),
    FormOf(4, 3, 50, 99, 40),
    FormOf(1, 1, 50, 40, 60),
    FormOf(1, 3, 50, 80, 40) }

\* init(): the column is populated, the previous counts recorded; the first
\* renderPage() is the first event
InitPage ==
  /\ form \in Forms
  /\ previousTrayCount = OrDefault(form.totalTrays, 8)
  /\ previousFeedTray = OrDefault(form.feedTray, 5)
  /\ column = populateColumnElement(OrDefault(form.totalTrays, 8), OrDefault(form.feedTray, 5))
  /\ lastSimulationFailed = FALSE
  /\ lastReturn = "none"
  /\ valid = FALSE
  /\ coreCalls = {}
  /\ args = NoCall
  /\ pc = "idle"
  /\ SolverIdle /\ RatesIdle /\ ColumnIdle /\ EquilibriumIdle /\ SectionIdle

\* renderPage() up to the call of columnSolver in runSimulation, for an
\* event that leaves the values f in the form
RenderPage ==
  /\ pc = "idle"
  /\ \E f \in Forms :
     \E minTrays \in {minTraysOf(f)} :
     \E feedTemp \in {updateFeedInfo(f)} :
     \E v \in {IF minTrays = Bottom THEN FALSE ELSE validateRawInputs(f, minTrays)} :
     \E count \in {OrDefault(f.totalTrays, 8)} :
     \E feedTrayNum \in {OrDefault(f.feedTray, 5)} :
       /\ form' = f
       /\ IF minTrays = Bottom \/ feedTemp = Bottom
          THEN /\ pc' = "diverged"
               /\ UNCHANGED <<args, valid, coreCalls, lastSimulationFailed,
                              previousTrayCount, previousFeedTray, column, equilibriumVars, sectionVars>>
          ELSE /\ valid' = v
               /\ previousTrayCount' = count
               /\ previousFeedTray' = feedTrayNum
               /\ column' = IF \/ count # previousTrayCount
                               \/ feedTrayNum # previousFeedTray
                               \/ lastSimulationFailed
                            THEN populateColumnElement(count, feedTrayNum)
                            ELSE column
               /\ coreCalls' = {"minimumTrays"}
                                 \cup (IF f.feedComposition > 0
                                       THEN {"equilibriumTemperatureFromX"} ELSE {})
                                 \cup (IF v THEN {"massToMolar", "columnSolver"} ELSE {})
               /\ lastSimulationFailed' = IF v THEN FALSE ELSE lastSimulationFailed
               /\ args' = IF v THEN SolverCall(f) ELSE NoCall
               /\ pc' = IF v THEN "entry" ELSE "idle"
  \* the locals of the core calls of this event are fresh
  /\ minR' = Zero /\ maxR' = Zero /\ residualLo' = Zero /\ residualHi' = Zero
  /\ guessR' = Zero /\ error' = Zero /\ k' = 0 /\ i' = 0
  /\ ret' = Zero /\ evals' = 0
  /\ rates' = <<Zero, Zero>>
  /\ boilUp' = Zero /\ vapComp' = Zero /\ liqComp' = Zero /\ temp' = Zero
  /\ trayIndex' = 0 /\ trays' = << >> /\ writes' = << >>
  /\ UNCHANGED <<lastReturn, equilibriumVars, sectionVars>>

\* runSimulation, lines 245-251: columnSolver returned a value <= 0
SimulationFailed ==
  /\ pc = "done"
  /\ FLe(ret, Zero)
  /\ column' = WarningContent
  /\ lastSimulationFailed' = TRUE
  /\ lastReturn' = "infeasible"
  /\ args' = NoCall
  /\ pc' = "idle"
  /\ UNCHANGED <<solverVars, rates, columnVars, form, valid, coreCalls,
                 previousTrayCount, previousFeedTray, equilibriumVars, sectionVars>>

\* runSimulation, lines 245 and 253: columnSolver returned a value that is
\* not <= 0, generateColumnData is called
SimulationData ==
  /\ pc = "done"
  /\ ~FLe(ret, Zero)
  /\ args' = [args EXCEPT !.totalTrays = form.totalTrays, !.refluxRatio = ret]
  /\ coreCalls' = coreCalls \cup {"generateColumnData"}
  /\ pc' = "generate"
  /\ UNCHANGED <<solverVars, rates, columnVars, form, valid, lastSimulationFailed,
                 previousTrayCount, previousFeedTray, lastReturn, column,
                 equilibriumVars, sectionVars>>

\* runSimulation, lines 266-274: productRates, updateProductRates, updateTrayData
SimulationShown ==
  /\ pc = "generated"
  /\ rates' = productRates(args.feedRate, args.xFeed, args.xDistillate, args.xBottoms)
  /\ \E condenserTemp \in {equilibriumTemperatureFromX(args.pressure, trays[0].vapComp,
                                                        propaneConstants, butaneConstants)} :
       IF condenserTemp = Bottom
       THEN pc' = "diverged" /\ UNCHANGED <<column, args, lastReturn>>
       ELSE /\ column' = updateTrayData(column, trays, form.totalTrays)
            /\ lastReturn' = "shown"
            /\ args' = NoCall
            /\ pc' = "idle"
  /\ coreCalls' = coreCalls \cup {"productRates", "equilibriumTemperatureFromX"}
  /\ UNCHANGED <<solverVars, columnVars, form, valid, lastSimulationFailed,
                 previousTrayCount, previousFeedTray, equilibriumVars, sectionVars>>

NextPage ==
  \/ RenderPage
  \/ columnSolver
  \/ SimulationFailed
  \/ SimulationData
  \/ generateColumnData
  \/ SimulationShown

SpecPage == InitPage /\ [][NextPage]_vars


(***************************************************************************)
(* equilibriumTemperatureFromX and equilibriumTemperatureFromY, one step   *)
(* per evaluation of the loop condition and per execution of the loop body *)
(***************************************************************************)
Pressures == {Dec(147, 10), Dec(1147, 10)}

InitEquilibrium ==
  /\ args \in {[NoCall EXCEPT !.pressure = P] : P \in Pressures}
  /\ solve \in {"X", "Y"}
  /\ molFrac \in Compositions
  /\ minT = Zero /\ maxT = Zero /\ tempGuess = Zero /\ result = Zero
  /\ pc = "equilibrium"
  /\ SolverIdle /\ RatesIdle /\ ColumnIdle /\ PageIdle /\ SectionIdle

\* let maxT, minT, tempGuess, result
EquilibriumEntry ==
  /\ pc = "equilibrium"
  /\ maxT' = boilingPointTemperature(args.pressure, propaneConstants)
  /\ minT' = boilingPointTemperature(args.pressure, butaneConstants)
  /\ tempGuess' = FDiv(FAdd(maxT', minT'), Two)
  /\ result' = Zero
  /\ pc' = "test"
  /\ UNCHANGED <<args, solverVars, rates, columnVars, pageVars, solve, molFrac, sectionVars>>

\* the residual assigned to result by the loop condition
EquilibriumResidual ==
  IF solve = "X"
  THEN binaryequilibriumEquationFromX(tempGuess, args.pressure, molFrac,
                                      propaneConstants, butaneConstants)
  ELSE binaryequilibriumEquationFromY(tempGuess, args.pressure, molFrac,
                                      propaneConstants, butaneConstants)

\* while (Math.abs(result = binaryequilibriumEquation...) > TOL)
EquilibriumTest ==
  /\ pc = "test"
  /\ result' = EquilibriumResidual
  /\ pc' = IF FGt(FAbs(result'), TOL) THEN "body" ELSE "returned"
  /\ UNCHANGED <<args, solverVars, rates, columnVars, pageVars,
                 solve, molFrac, minT, maxT, tempGuess, sectionVars>>

\* the body of the loop
EquilibriumBody ==
  /\ pc = "body"
  /\ \E st \in {LoopStep(LoopState(minT, maxT, tempGuess, "run"), result)} :
       /\ minT' = st.minT /\ maxT' = st.maxT /\ tempGuess' = st.tempGuess
  /\ pc' = "test"
  /\ UNCHANGED <<args, solverVars, rates, columnVars, pageVars, solve, molFrac, result, sectionVars>>

NextEquilibrium == EquilibriumEntry \/ EquilibriumTest \/ EquilibriumBody

SpecEquilibrium == InitEquilibrium /\ [][NextEquilibrium]_vars

(***************************************************************************)
(* rectifyingSection and strippingSection, one step per loop iteration     *)
(***************************************************************************)
BoilUps == {Dec(15, 10), FromInt(3)}

\* the calls: every feed tray within a column of up to MaxTrays trays
SectionCalls ==
  {[NoCall EXCEPT !.xDistillate = Dec(9, 10), !.xBottoms = Dec(1, 10),
                  !.pressure = Dec(1147, 10), !.refluxRatio = R,
                  !.feedTray = ft, !.totalTrays = tt] :
     R \in BoilUps, ft \in 1 .. MaxTrays, tt \in 1 .. MaxTrays}

InitSections ==
  /\ args \in {a \in SectionCalls : a.feedTray <= a.totalTrays}
  /\ section \in {"rectifying", "stripping"}
  /\ boilUp = args.refluxRatio
  /\ vapMolFrac = Zero /\ liqMolFrac = Zero /\ tray = 0 /\ steps = 0
  /\ pc = "section"
  /\ vapComp = Zero /\ liqComp = Zero /\ temp = Zero
  /\ trayIndex = 0 /\ trays = << >> /\ writes = << >>
  /\ SolverIdle /\ RatesIdle /\ PageIdle /\ EquilibriumIdle

\* rectifyingSection, lines 276-279 up to the first test of the loop
RectifyingEntry ==
  /\ pc = "section" /\ section = "rectifying"
  /\ vapMolFrac' = args.xDistillate
  /\ liqMolFrac' = liqMolFraction(args.pressure, args.xDistillate,
                                  propaneConstants, butaneConstants)
  /\ liqMolFrac' # Bottom
  /\ tray' = 2
  /\ pc' = "loop"
  /\ UNCHANGED <<args, solverVars, rates, columnVars, pageVars, equilibriumVars,
                 section, steps>>

\* rectifyingSection, lines 279-282: one execution of the loop body
RectifyingStep ==
  /\ pc = "loop" /\ section = "rectifying"
  /\ tray <= args.feedTray
  /\ vapMolFrac' = rectifyingOperatingLine(args.refluxRatio, args.xDistillate, liqMolFrac)
  /\ liqMolFrac' = liqMolFraction(args.pressure, vapMolFrac',
                                  propaneConstants, butaneConstants)
  /\ liqMolFrac' # Bottom
  /\ tray' = tray + 1
  /\ steps' = steps + 1
  /\ UNCHANGED <<args, pc, solverVars, rates, columnVars, pageVars, equilibriumVars,
                 section>>

\* strippingSection with its loop started one tray higher
StrippingEntryAboveLastTray ==
  /\ pc = "section" /\ section = "stripping"
  /\ liqMolFrac' = args.xBottoms
  /\ vapMolFrac' = vapMolFraction(args.pressure, args.xBottoms,
                                  propaneConstants, butaneConstants)
  /\ vapMolFrac' # Bottom
  /\ tray' = args.totalTrays - 1
  /\ pc' = "loop"
  /\ UNCHANGED <<args, solverVars, rates, columnVars, pageVars, equilibriumVars,
                 section, steps>>

\* strippingSection, lines 299-301 up to the first test of the loop
StrippingEntry ==
  /\ pc = "section" /\ section = "stripping"
  /\ liqMolFrac' = args.xBottoms
  /\ vapMolFrac' = vapMolFraction(args.pressure, args.xBottoms,
                                  propaneConstants, butaneConstants)
  /\ vapMolFrac' # Bottom
  /\ tray' = args.totalTrays
  /\ pc' = "loop"
  /\ UNCHANGED <<args, solverVars, rates, columnVars, pageVars, equilibriumVars,
                 section, steps>>

\* strippingSection, lines 301-304: one execution of the loop body
StrippingStep ==
  /\ pc = "loop" /\ section = "stripping"
  /\ tray >= args.feedTray
  /\ liqMolFrac' = strippingOperatingLine(boilUp, args.xBottoms, vapMolFrac)
  /\ vapMolFrac' = vapMolFraction(args.pressure, liqMolFrac',
                                  propaneConstants, butaneConstants)
  /\ vapMolFrac' # Bottom
  /\ tray' = tray - 1
  /\ steps' = steps + 1
  /\ UNCHANGED <<args, pc, solverVars, rates, columnVars, pageVars, equilibriumVars,
                 section>>

\* lines 279 and 283, 301 and 305: the loop condition is false, return liqMolFrac
SectionReturn ==
  /\ pc = "loop"
  /\ IF section = "rectifying" THEN ~(tray <= args.feedTray) ELSE ~(tray >= args.feedTray)
  /\ pc' = "returned"
  /\ UNCHANGED <<args, solverVars, rates, columnVars, pageVars, equilibriumVars, sectionVars>>

NextSections ==
  \/ RectifyingEntry
  \/ RectifyingStep
  \/ StrippingEntry
  \/ StrippingStep
  \/ SectionReturn

SpecSections == InitSections /\ [][NextSections]_vars
(***************************************************************************)
(* Properties of columnSolver (specification Spec)                         *)
(***************************************************************************)
\* C1: for a specification with xBottoms < xFeed < xDistillate and
\* 1 <= feedTray <= totalTrays, a value returned by columnSolver is the
\* sentinel -1 or a reflux ratio whose feedTrayDelta is below TOL in absolute
\* value, whichever return point produced it
ReturnsSentinelOrRoot ==
  pc = "done" /\ ValidSpecification(args) =>
    ret = Sentinel \/ FLt(FAbs(Residual(ret, args)), TOL)

\* a valid specification answered by the bisection with a reflux ratio
RootReturnedByBisection ==
  pc = "done" /\ ValidSpecification(args) /\ ret # Sentinel /\ i > 0

\* the value v is exactly -1 or a finite number >= 1e-8, and  v <= 0  holds
\* exactly when v is -1
SentinelOrPositive(v) ==
  /\ v = Sentinel \/ (IsFinite(v) /\ FGe(v, Dec(1, 100000000)))
  /\ FLe(v, Zero) <=> v = Sentinel

\* C2, with the feed tray inside the column: when 1 <= feedTray <= totalTrays,
\* a value returned by columnSolver is exactly -1 or a finite number >= 1e-8
\* (never NaN, an infinity, zero or another negative number), so that
\* refluxRatio <= 0  holds exactly for the sentinel
ReturnIsSentinelOrPositive ==
  pc = "done" /\ 1 <= args.feedTray /\ args.feedTray <= args.totalTrays =>
    SentinelOrPositive(ret)

\* a call with the feed tray inside the column whose minimum reflux ratio is
\* NaN, answered by the sentinel
NaNLowerBoundAnswered ==
  /\ pc = "done" /\ 1 <= args.feedTray /\ args.feedTray <= args.totalTrays
  /\ IsNaN(minR) /\ ret = Sentinel

\* C2 as stated, for every call: every value returned by columnSolver is
\* exactly -1 or a finite number >= 1e-8
EveryReturnIsSentinelOrPositive == pc = "done" => SentinelOrPositive(ret)

\* C3: a reflux ratio returned by columnSolver for a valid specification is
\* strictly greater than minimumRefluxRatio of the same specification
ReturnExceedsMinimumReflux ==
  pc = "done" /\ ValidSpecification(args) /\ ret # Sentinel =>
    FGt(ret, minimumRefluxRatio(args.xFeed, args.xDistillate, args.pressure,
                                propaneConstants, butaneConstants))

\* C4: every call of columnSolver terminates: no loop it runs, the loops of
\* the equilibrium solves included, goes on for ever
EveryLoopExits == pc # "diverged"

\* C6: both failure modes of columnSolver, no sign-changing bracket after the
\* doubling search and a bisection that used up MAXITERATIONS, end in a
\* normal return of -1
FailureReturnsSentinel ==
  [][(\/ pc = "bracket" /\ (~IsFinite(residualHi) \/ ~SignDiffers(residualHi, residualLo))
      \/ pc = "bisection" /\ i >= MAXITERATIONS)
     => pc' = "done" /\ ret' = Sentinel]_vars

\* the bisection used up its iterations and the sentinel was returned
BisectionGaveUp == pc = "done" /\ ret = Sentinel /\ i = MAXITERATIONS

\* C8: when totalTrays is smaller than minimumTrays of the same (valid)
\* specification, columnSolver returns the sentinel -1
TooFewTraysReturnsSentinel ==
  /\ pc = "done" /\ ValidSpecification(args)
  /\ FLt(FromInt(args.totalTrays),
         minimumTrays(args.xDistillate, args.xBottoms, args.pressure,
                      propaneConstants, butaneConstants))
  => ret = Sentinel

\* the residuals at the two ends found by the doubling search are finite and
\* of strictly opposite signs
ValidBracket ==
  /\ IsFinite(residualLo) /\ IsFinite(residualHi)
  /\ FSign(residualLo) * FSign(residualHi) = -1

BisectionKeepsBracket ==
  pc = "bisection" /\ IsPos(residualLo) =>
    IsPos(Residual(minR, args)) /\ IsNeg(Residual(maxR, args))

\* a bracket with positive lower residual after three steps of the bisection
BracketKeptThreeSteps ==
  /\ pc = "bisection" /\ IsPos(residualLo) /\ i = 3
  /\ FLt(minR, guessR) /\ FLt(guessR, maxR)

\* C12 as stated, for either orientation of the bracket: while columnSolver
\* bisects, the residuals at minR and maxR have opposite signs after every step
BisectionKeepsEitherBracket ==
  pc = "bisection" =>
    FSign(Residual(minR, args)) * FSign(Residual(maxR, args)) = -1

\* a doubled n times
RECURSIVE Doubled(_, _)
Doubled(a, n) == IF n = 0 THEN a ELSE Doubled(FMul(a, Two), n - 1)

\* the number of feedTrayDelta evaluations made so far, by phase of the call
EvaluationsCounted ==
  /\ evals <= 201
  /\ pc = "doubling" => k <= 100 /\ evals = 1 + k /\ maxR = Doubled(minR, k)
  /\ pc = "bracket" => evals <= 1 + 100
  /\ pc = "bisection" => i <= 100 /\ evals <= 1 + 100 + i

OverallImbalance(a, r) == FSub(FAdd(r[1], r[2]), a.feedRate)
ComponentImbalance(a, r) ==
  FSub(FAdd(FMul(r[1], a.xDistillate), FMul(r[2], a.xBottoms)), FMul(a.feedRate, a.xFeed))

\* the rounding allowance of the balances: |F| / 2^19, 32 units in the last
\* place of the feed rate
BalanceAllowance(a) == FMul(FAbs(a.feedRate), Fin(1, -19))

\* C9, up to rounding: for xB < xF < xD the pair <<D, B>> returned by
\* productRates satisfies D + B = F and D*xD + B*xB = F*xF within 32 units
\* in the last place of F
BalancesHoldUpToRounding ==
  pc = "returned" /\ FLt(args.xBottoms, args.xFeed) /\ FLt(args.xFeed, args.xDistillate) =>
    /\ FLe(FAbs(OverallImbalance(args, rates)), BalanceAllowance(args))
    /\ FLe(FAbs(ComponentImbalance(args, rates)), BalanceAllowance(args))

\* an ordered specification split into two positive product rates
PositiveSplitReturned ==
  /\ pc = "returned" /\ FLt(args.xBottoms, args.xFeed) /\ FLt(args.xFeed, args.xDistillate)
  /\ IsPos(rates[1]) /\ IsPos(rates[2])

\* C9 as stated: for xB < xF < xD the pair <<D, B>> returned by productRates
\* satisfies D + B = F and D*xD + B*xB = F*xF exactly
BalancesHoldExactly ==
  pc = "returned" /\ FLt(args.xBottoms, args.xFeed) /\ FLt(args.xFeed, args.xDistillate) =>
    /\ FAdd(rates[1], rates[2]) = args.feedRate
    /\ FAdd(FMul(rates[1], args.xDistillate), FMul(rates[2], args.xBottoms))
         = FMul(args.feedRate, args.xFeed)

\* C10: when xD = xB, both rates returned by productRates are non-finite,
\* for every feed rate and feed composition
EqualSpecsGiveNonFiniteRates ==
  pc = "returned" /\ args.xDistillate = args.xBottoms =>
    ~IsFinite(rates[1]) /\ ~IsFinite(rates[2])

\* equal product compositions answered by an infinite distillate rate
InfiniteSplitReturned ==
  pc = "returned" /\ args.xDistillate = args.xBottoms /\ rates[1] = PInf

(***************************************************************************)
(* Properties of generateColumnData (specification SpecColumn)             *)
(***************************************************************************)
\* C5: for 1 <= feedTray <= totalTrays no index is assigned twice, and the
\* array returned has exactly the indices 0 .. totalTrays, each assigned
\* once, index j holding the tray numbered j + 1, the last one (numbered
\* totalTrays + 1) being the reboiler: the first tray of the stripping loop
ColumnDataComplete ==
  /\ \A j \in DOMAIN writes : writes[j] <= 1
  /\ pc = "generated" =>
       /\ DOMAIN trays = 0 .. args.totalTrays
       /\ DOMAIN writes = 0 .. args.totalTrays
       /\ \A j \in 0 .. args.totalTrays : writes[j] = 1 /\ trays[j].trayNumber = j + 1
       /\ trays[args.totalTrays].liqComp
            = strippingOperatingLine(boilUp, args.xBottoms, args.xBottoms)

\* a column of four trays fed on the second one was generated
FourTrayColumnGenerated ==
  pc = "generated" /\ args.totalTrays = 4 /\ args.feedTray = 2

(***************************************************************************)
(* Properties of the page (specification SpecPage)                         *)
(***************************************************************************)
\* C7: while an event is handled whose values did not pass validateRawInputs,
\* no core function is invoked
InvalidRejectedBeforeCore == ~valid => coreCalls = {}


(***************************************************************************)
(* Properties of the equilibrium temperature loops                         *)
(***************************************************************************)
\* every guess is between the two boiling points at the column pressure
GuessWithinBracket ==
  pc \in {"test", "body", "returned"} =>
    /\ FLe(boilingPointTemperature(args.pressure, propaneConstants), tempGuess)
    /\ FLe(tempGuess, boilingPointTemperature(args.pressure, butaneConstants))

LiquidOfTray == IF section = "rectifying" THEN tray - 1 ELSE tray + 1

MarchEndsOnFeedTray ==
  /\ pc = "loop" =>
       /\ steps = (IF section = "rectifying" THEN LiquidOfTray - 1
                                              ELSE args.totalTrays + 1 - LiquidOfTray)
       /\ steps = 0 => liqMolFrac = (IF section = "rectifying"
                                     THEN liqMolFraction(args.pressure, args.xDistillate,
                                                         propaneConstants, butaneConstants)
                                     ELSE args.xBottoms)
  /\ pc = "returned" /\ section = "rectifying" =>
       /\ steps = args.feedTray - 1
       /\ LiquidOfTray = args.feedTray
       /\ liqMolFrac = rectifyingSection(args.refluxRatio, args.pressure, args.xDistillate,
                                         args.feedTray, propaneConstants, butaneConstants)
  /\ pc = "returned" /\ section = "stripping" =>
       /\ steps = args.totalTrays - args.feedTray + 1
       /\ LiquidOfTray = args.feedTray
       /\ liqMolFrac = strippingSection(boilUp, args.pressure, args.xBottoms, args.feedTray,
                                        args.totalTrays, propaneConstants, butaneConstants)

\* C15: for 1 <= feedTray <= totalTrays, rectifyingSection runs its loop body
\* (operating line, then equilibrium) feedTray - 1 times after the tray-1
\* equilibrium and strippingSection runs its loop body totalTrays - feedTray
\* + 1 times starting from the bottoms composition at the reboiler (stage
\* totalTrays + 1); each body advances the held liquid by one tray, and both
\* return the liquid composition of tray feedTray.
SectionsMeetOnFeedTray ==
  /\ []MarchEndsOnFeedTray
  /\ [][pc = "loop" /\ pc' = "loop" =>
          /\ steps' = steps + 1
          /\ LiquidOfTray' = (IF section = "rectifying" THEN LiquidOfTray + 1
                                                         ELSE LiquidOfTray - 1)]_vars

\* a stripping march of more than one step has returned on an inner feed tray
StrippingMarchReturned ==
  /\ pc = "returned" /\ section = "stripping"
  /\ args.feedTray = 2 /\ args.totalTrays = 4 /\ steps = 3

(***************************************************************************)
(* Properties of runSimulation                                             *)
(***************************************************************************)
\* executions of the loop body of strippingSection from the value n of its
\* loop variable on
RECURSIVE StrippingBodies(_, _)
StrippingBodies(n, feedTray) ==
  IF n >= feedTray THEN 1 + StrippingBodies(n - 1, feedTray) ELSE 0

\* stripping steps of the columnSolver call of runSimulation, from the
\* reboiler to the tray whose liquid it compares with the rectifying march
SolverStrippingSteps ==
  StrippingBodies(SolverCall(form).totalTrays, SolverCall(form).feedTray)

\* stages from the feed-tray entry to the reboiler entry (the last one) of
\* the array generateColumnData returned
ProfileStagesBelowFeed ==
  trays[form.totalTrays].trayNumber - trays[form.feedTray - 1].trayNumber

\* C16: the profile is generated for the column the reflux ratio was solved
\* for: the solver takes as many stripping steps from the reboiler to its
\* comparison tray as the profile has stages from the reboiler entry to the
\* feed-tray entry.
ProfileOfSolvedColumn ==
  pc = "generated" => SolverStrippingSteps = ProfileStagesBelowFeed

\* the column element holds the tray list of the form: no warning, one node
\* per tray with stages 1 .. totalTrays, the feed label on the feed tray
ColumnMatchesForm ==
  /\ ~column.warning
  /\ DOMAIN column.nodes = 1 .. form.totalTrays
  /\ \A n \in DOMAIN column.nodes :
       /\ column.nodes[n].stage = n
       /\ column.nodes[n].feed = (n = form.feedTray)

\* C17: whenever updateTrayData is about to run, and after it has run, the
\* column element holds the tray list of the form; when the last simulation
\* that returned had failed, that list is a fresh one (the warning was
\* replaced, no node shows data yet); between events lastSimulationFailed is
\* true exactly when the last runSimulation that returned did so through the
\* infeasible branch.
ResultsWrittenToTrayList ==
  /\ pc = "generated" \/ (pc = "idle" /\ lastReturn = "shown" /\ valid) => ColumnMatchesForm
  /\ pc = "generated" /\ lastReturn = "infeasible" =>
       column = populateColumnElement(form.totalTrays, form.feedTray)
  /\ pc = "idle" => (lastSimulationFailed <=> lastReturn = "infeasible")

\* results are about to be written after a failed simulation of a column with
\* the same tray count and feed tray
ResultsFollowWarning ==
  /\ pc = "generated" /\ lastReturn = "infeasible"
  /\ previousTrayCount = 2 /\ column = populateColumnElement(2, 1)
=============================================================================
